---- MODULE Spec2Model ----
(***************************************************************************)
(* Model of packages/platform-server/src/domino_adapter.ts: the            *)
(* DominoAdapter (server-side DOM adapter) and the document factory.       *)
(*                                                                         *)
(* Objects (documents, windows, nodes) live in `heap`, a sequence indexed  *)
(* by object identity; reference 0 is null/undefined.  Strings are         *)
(* sequences of tokens: the one-character tokens of Chars, plus the two    *)
(* identifier tokens "hasOwnProperty" and "__proto__", each standing for   *)
(* that whole identifier.  JavaScript values are records [t, m, s, n]:     *)
(* t the type tag, s the string, n a number/reference/boolean, m the       *)
(* fixed part of an error message.                                         *)
(*                                                                         *)
(* No token is a digit, so no style key is an integer-like property name   *)
(* and a style map enumerates its keys in insertion order (for-in).        *)
(***************************************************************************)
EXTENDS Integers, Sequences, FiniteSets, TLC

VARIABLES
    defaultDoc,      \* DominoAdapter.defaultDoc (static): 0 while unset
    currentAdapter,  \* number of the adapter instance installed, 0 if none
    globalDocument,  \* the global `document`: 0 when the host declares none
    heap,            \* the objects created so far
    lastShadow,      \* history: per object, the fragment its last completed createShadowRoot returned
    lastHref,        \* history: per object, the value last written to href
    last             \* the last call: operation, arguments, result

vars == <<defaultDoc, currentAdapter, globalDocument, heap, lastShadow, lastHref, last>>

(* ------------------------------ bounds -------------------------------- *)

MaxObj == 7          \* objects ever created
MaxAdapters == 2     \* makeCurrent calls
MaxInitLen == 2      \* length of a style attribute present before the first call
MaxAttrLen == 8      \* length of a style attribute a call may produce
MaxRecv == 2         \* deliveries counted per event target

(* ------------------------------ values -------------------------------- *)

Str(s) == [t |-> "string", m |-> "", s |-> s, n |-> 0]
Null == [t |-> "null", m |-> "", s |-> <<>>, n |-> 0]
Undefined == [t |-> "undefined", m |-> "", s |-> <<>>, n |-> 0]
Bool(b) == [t |-> "boolean", m |-> "", s |-> <<>>, n |-> IF b THEN 1 ELSE 0]
Ref(i) == IF i = 0 THEN Undefined ELSE [t |-> "object", m |-> "", s |-> <<>>, n |-> i]
Thrown(msg, s) == [t |-> "error", m |-> msg, s |-> s, n |-> 0]

\* JavaScript truthiness of a string, null or undefined.
Truthy(v) == v.t = "string" /\ v.s # <<>>

Chars == {"a", "b", ":", ";", " "}

\* All strings over S of length at most n.
RECURSIVE StringsUpTo(_, _)
StringsUpTo(S, n) ==
    IF n = 0 THEN {<<>>}
    ELSE LET shorter == StringsUpTo(S, n - 1)
         IN  shorter \cup {Append(s, c) : s \in {x \in shorter : Len(x) = n - 1}, c \in S}

\* String.prototype.trim
RECURSIVE TrimLeft(_)
TrimLeft(s) == IF s # <<>> /\ Head(s) = " " THEN TrimLeft(Tail(s)) ELSE s
RECURSIVE TrimRight(_)
TrimRight(s) ==
    IF s # <<>> /\ s[Len(s)] = " " THEN TrimRight(SubSeq(s, 1, Len(s) - 1)) ELSE s
Trim(s) == TrimRight(TrimLeft(s))

\* String.prototype.indexOf for a one-character needle, 1-based; 0 for JavaScript's -1.
IndexOf(s, c) ==
    IF \E i \in 1..Len(s) : s[i] = c
    THEN CHOOSE i \in 1..Len(s) : s[i] = c /\ \A j \in 1..(i - 1) : s[j] # c
    ELSE 0

\* styleAttribute.split(/;+/g): a run of semicolons is one separator; a separator at
\* either end leaves an empty string there.
RECURSIVE SplitFrom(_, _, _, _)
SplitFrom(s, i, cur, out) ==
    IF i > Len(s) THEN Append(out, cur)
    ELSE IF s[i] = ";"
         THEN IF i > 1 /\ s[i - 1] = ";"
              THEN SplitFrom(s, i + 1, cur, out)
              ELSE SplitFrom(s, i + 1, <<>>, Append(out, cur))
         ELSE SplitFrom(s, i + 1, Append(cur, s[i]), out)
SplitSemicolons(s) == SplitFrom(s, 1, <<>>, <<>>)

(* ----------------------------- style maps ----------------------------- *)

\* A style map is the object literal {} of _readStyleAttribute: a sequence of
\* [k, v] entries, one per own enumerable key, in insertion order.
HasOwn(map, k) == \E i \in 1..Len(map) : map[i].k = k
Lookup(map, k) == map[CHOOSE i \in 1..Len(map) : map[i].k = k].v

\* styleMap[k] = v.  Object.prototype's __proto__ setter takes the write: no own key
\* is created (a string or undefined is ignored, null only clears the prototype).
MapSet(map, k, v) ==
    IF k = <<"__proto__">> THEN map
    ELSE IF HasOwn(map, k)
         THEN [i \in 1..Len(map) |-> IF map[i].k = k THEN [k |-> k, v |-> v] ELSE map[i]]
         ELSE Append(map, [k |-> k, v |-> v])

\* The loop body of _readStyleAttribute over styleList[i..]: a parse result
\* [ok, map, err].
RECURSIVE ReadSegments(_, _, _)
ReadSegments(list, i, map) ==
    IF i > Len(list) THEN [ok |-> TRUE, map |-> map, err |-> Undefined]
    ELSE LET style == list[i]
             colon == IndexOf(style, ":")
         IN  IF Len(style) > 0
             THEN IF colon = 0
                  THEN [ok |-> FALSE, map |-> map,
                        err |-> Thrown("Invalid CSS style: ", style)]
                  ELSE ReadSegments(list, i + 1,
                           MapSet(map, Trim(SubSeq(style, 1, colon - 1)),
                                  Str(Trim(SubSeq(style, colon + 1, Len(style))))))
             ELSE ReadSegments(list, i + 1, map)

\* A reader that skips a segment without a colon instead of throwing.
RECURSIVE LenientSegments(_, _, _)
LenientSegments(list, i, map) ==
    IF i > Len(list) THEN [ok |-> TRUE, map |-> map, err |-> Undefined]
    ELSE LET style == list[i]
             colon == IndexOf(style, ":")
         IN  IF Len(style) > 0 /\ colon # 0
             THEN LenientSegments(list, i + 1,
                      MapSet(map, Trim(SubSeq(style, 1, colon - 1)),
                             Str(Trim(SubSeq(style, colon + 1, Len(style))))))
             ELSE LenientSegments(list, i + 1, map)
ReadStyleAttribute_lenient(attr) ==
    IF Truthy(attr) THEN LenientSegments(SplitSemicolons(attr.s), 1, <<>>)
    ELSE [ok |-> TRUE, map |-> <<>>, err |-> Undefined]

\* _readStyleAttribute(element), given element.getAttribute('style').
ReadStyleAttribute(attr) ==
    IF Truthy(attr) THEN ReadSegments(SplitSemicolons(attr.s), 1, <<>>)
    ELSE [ok |-> TRUE, map |-> <<>>, err |-> Undefined]

\* A writer that forgets the `if (newValue)` test and the separator after a value.
RECURSIVE SerializeAll(_, _, _)
SerializeAll(map, i, acc) ==
    IF i > Len(map) THEN acc
    ELSE SerializeAll(map, i + 1,
             acc \o map[i].k \o <<":">> \o (IF map[i].v.t = "string" THEN map[i].v.s ELSE <<>>) \o <<";">>)
WriteStyleAttribute_keepEmpty(map) == SerializeAll(map, 1, <<>>)

RECURSIVE SerializeNoSep(_, _, _)
SerializeNoSep(map, i, acc) ==
    IF i > Len(map) THEN acc
    ELSE SerializeNoSep(map, i + 1,
             IF Truthy(map[i].v) THEN acc \o map[i].k \o <<":">> \o map[i].v.s ELSE acc)
WriteStyleAttribute_noSeparator(map) == SerializeNoSep(map, 1, <<>>)

\* The loop of _writeStyleAttribute: the string handed to setAttribute('style', ...).
RECURSIVE Serialize(_, _, _)
Serialize(map, i, acc) ==
    IF i > Len(map) THEN acc
    ELSE Serialize(map, i + 1,
             IF Truthy(map[i].v) THEN acc \o map[i].k \o <<":">> \o map[i].v.s \o <<";">>
             ELSE acc)
WriteStyleAttribute(map) == Serialize(map, 1, <<>>)

\* setStyle up to the attribute write: [ok, attr, err].
SetStyleResult(attr, styleName, styleValue) ==
    LET r == ReadStyleAttribute(attr)
    IN  IF r.ok
        THEN [ok |-> TRUE, err |-> Undefined,
              attr |-> Str(WriteStyleAttribute(MapSet(r.map, styleName, styleValue)))]
        ELSE [ok |-> FALSE, err |-> r.err, attr |-> attr]

\* getStyle: the value returned or thrown.  A style map with an own key
\* hasOwnProperty shadows Object.prototype.hasOwnProperty with a string, and the
\* call styleMap.hasOwnProperty(styleName) throws a TypeError.
GetStyleResult(attr, styleName) ==
    LET r == ReadStyleAttribute(attr)
    IN  IF ~r.ok THEN r.err
        ELSE IF HasOwn(r.map, <<"hasOwnProperty">>)
             THEN Thrown("TypeError: styleMap.hasOwnProperty is not a function", <<>>)
             ELSE IF HasOwn(r.map, styleName) THEN Lookup(r.map, styleName) ELSE Str(<<>>)

\* hasStyle: getStyle(...) || '', then the comparison.
HasStyleResult(attr, styleName, styleValue) ==
    LET g == GetStyleResult(attr, styleName)
        value == IF Truthy(g) THEN g.s ELSE <<>>
    IN  IF g.t = "error" THEN g
        ELSE IF Truthy(styleValue) THEN Bool(value = styleValue.s) ELSE Bool(Len(value) > 0)

(* ------------------------------ objects ------------------------------- *)

\* nodeType constants of the DOM, read off a document (defaultDoc.TEXT_NODE, ...).
ELEMENT_NODE == 1
TEXT_NODE == 3
COMMENT_NODE == 8
DOCUMENT_NODE == 9
DOCUMENT_FRAGMENT_NODE == 11

PropNames == {"href", "innerText", "title"}

\* A fresh object: no `parent` and no `shadowRoot` field (the engine defines
\* neither), no attributes, no expando properties, no text.
NewObject(kind, nodeType, ownerDocument, defaultView) ==
    [kind |-> kind, nodeType |-> nodeType, parent |-> 0, shadowRoot |-> 0,
     ownerDocument |-> ownerDocument, defaultView |-> defaultView,
     style |-> Null, href |-> Null, props |-> [p \in PropNames |-> Undefined],
     textContent |-> Str(<<>>), received |-> 0]

Objects == 1..Len(heap)
IsElement(i) == i \in Objects /\ heap[i].kind = "element"
\* What a caller holds as a Node: everything but a window.
IsNode(i) == i \in Objects /\ heap[i].kind # "window"

\* The pages handed to parseDocument: the node the parse yields besides the
\* window, the document and the root element.
Pages == {"<html></html>", "<html>text</html>", "<!--c--><html></html>"}
FakeTitlePage == "<html>text</html>"

\* domino.createWindow(html, url) as seen through this file: a window, its
\* document (defaultView the window), the root element (carrying the style
\* attribute the html gives it) and the text or comment node of the page.
ParsedObjects(h, html, styleAttr) ==
    LET w == Len(h) + 1
        d == Len(h) + 2
        base == <<NewObject("window", 0, 0, 0),
                  NewObject("document", DOCUMENT_NODE, 0, w),
                  [NewObject("element", ELEMENT_NODE, d, 0) EXCEPT !.style = styleAttr]>>
    IN  CASE html = "<html>text</html>" ->
                 Append(base, NewObject("text", TEXT_NODE, d, 0))
          [] html = "<!--c--><html></html>" ->
                 Append(base, NewObject("comment", COMMENT_NODE, d, 0))
          [] OTHER -> base

Call(op, a, b, name, value, pre, ret) ==
    [op |-> op, a |-> a, b |-> b, name |-> name, value |-> value, pre |-> pre, ret |-> ret]
NoCall == Call("none", 0, 0, <<>>, Undefined, Undefined, Undefined)

(* --------------------------- style operations ------------------------- *)

\* setStyle(element, styleName, styleValue); removeStyle goes through it with null.
StyleWrite(op, el, styleName, styleValue) ==
    /\ IsElement(el)
    /\ LET r == SetStyleResult(heap[el].style, styleName, styleValue)
       IN  /\ r.ok => Len(r.attr.s) <= MaxAttrLen
           /\ heap' = IF r.ok THEN [heap EXCEPT ![el].style = r.attr] ELSE heap
           /\ last' = Call(op, el, 0, styleName, styleValue, heap[el].style,
                           IF r.ok THEN Undefined ELSE r.err)
    /\ UNCHANGED <<defaultDoc, currentAdapter, globalDocument, lastShadow, lastHref>>

SetStyle(el, styleName, styleValue) == StyleWrite("setStyle", el, styleName, styleValue)

RemoveStyle(el, styleName) == StyleWrite("removeStyle", el, styleName, Null)

GetStyle(el, styleName) ==
    /\ IsElement(el)
    /\ last' = Call("getStyle", el, 0, styleName, Undefined, heap[el].style,
                    GetStyleResult(heap[el].style, styleName))
    /\ UNCHANGED <<defaultDoc, currentAdapter, globalDocument, heap, lastShadow, lastHref>>

HasStyle(el, styleName, styleValue) ==
    /\ IsElement(el)
    /\ last' = Call("hasStyle", el, 0, styleName, styleValue, heap[el].style,
                    HasStyleResult(heap[el].style, styleName, styleValue))
    /\ UNCHANGED <<defaultDoc, currentAdapter, globalDocument, heap, lastShadow, lastHref>>

\* Inputs of the style operations.
StyleNames ==
    {<<>>, <<"a">>, <<"b">>, <<":">>, <<" ", "a">>, <<"hasOwnProperty">>, <<"__proto__">>}
StyleValues ==
    {Null, Undefined} \cup
    {Str(s) : s \in {<<>>, <<"a">>, <<" ">>, <<";", "b">>, <<"a", ":", "b">>}}

StyleNext ==
    \E el \in Objects, styleName \in StyleNames :
        \/ \E styleValue \in StyleValues : SetStyle(el, styleName, styleValue)
        \/ RemoveStyle(el, styleName)
        \/ GetStyle(el, styleName)
        \/ \E styleValue \in {Undefined, Str(<<"a">>)} :
               HasStyle(el, styleName, styleValue)

\* The state after parseDocument of a page whose root element carries the
\* style attribute `attr` (absent: Null), in a host whose global `document` is
\* `global` (0: none declared).
PageInit(html, attr, global) ==
    /\ defaultDoc = 0
    /\ currentAdapter = 0
    /\ globalDocument = global
    /\ heap = ParsedObjects(<<>>, html, attr)
    /\ lastShadow = [i \in 1..MaxObj + 1 |-> 0]
    /\ lastHref = [i \in 1..MaxObj + 1 |-> Null]
    /\ last = NoCall

StyleInit ==
    \E attr \in {Null} \cup {Str(s) : s \in StringsUpTo(Chars, MaxInitLen)} :
        PageInit("<html></html>", attr, 0)

\* Style operations on an element parsed with any style attribute.
SpecStyle == StyleInit /\ [][StyleNext]_vars

\* Style operations on an element that starts with no style attribute.
SpecFresh == PageInit("<html></html>", Null, 0) /\ [][StyleNext]_vars

(* ------------------------- document lifecycle ------------------------- *)

\* static makeCurrent(): a new adapter instance becomes the current one.
MakeCurrent ==
    /\ currentAdapter < MaxAdapters
    /\ currentAdapter' = currentAdapter + 1
    /\ last' = Call("makeCurrent", 0, 0, <<>>, Undefined, Undefined, Undefined)
    /\ UNCHANGED <<defaultDoc, globalDocument, heap, lastShadow, lastHref>>

\* parseDocument(html, url): the document of a new window.
ParseDocument(html) ==
    LET new == ParsedObjects(heap, html, Null)
    IN  /\ Len(heap) + Len(new) <= MaxObj
        /\ heap' = heap \o new
        /\ last' = Call("parseDocument", 0, 0, <<html>>, Undefined, Undefined,
                        Ref(Len(heap) + 2))
        /\ UNCHANGED <<defaultDoc, currentAdapter, globalDocument, lastShadow, lastHref>>

\* createHtmlDocument(): parseDocument of the fixed fakeTitle page.
CreateHtmlDocument ==
    LET new == ParsedObjects(heap, FakeTitlePage, Null)
    IN  /\ Len(heap) + Len(new) <= MaxObj
        /\ heap' = heap \o new
        /\ last' = Call("createHtmlDocument", 0, 0, <<>>, Undefined, Undefined,
                        Ref(Len(heap) + 2))
        /\ UNCHANGED <<defaultDoc, currentAdapter, globalDocument, lastShadow, lastHref>>

\* A getDefaultDocument that creates a document on every call.
MustCreateDefaultDoc_always(d) == TRUE

\* if (!DominoAdapter.defaultDoc)
MustCreateDefaultDoc(d) == d = 0

\* getDefaultDocument(): domino.createDocument() makes a document without a window.
GetDefaultDocument ==
    /\ IF MustCreateDefaultDoc(defaultDoc)
       THEN /\ Len(heap) + 1 <= MaxObj
            /\ heap' = Append(heap, NewObject("document", DOCUMENT_NODE, 0, 0))
            /\ defaultDoc' = Len(heap) + 1
       ELSE UNCHANGED <<heap, defaultDoc>>
    /\ last' = Call("getDefaultDocument", 0, 0, <<>>, Undefined, Undefined, Ref(defaultDoc'))
    /\ UNCHANGED <<currentAdapter, globalDocument, lastShadow, lastHref>>

(* -------------------------- node classification ----------------------- *)

\* doc.TEXT_NODE, doc.COMMENT_NODE, doc.ELEMENT_NODE
NodeConstant(doc, which) ==
    CASE which = "TEXT_NODE" -> TEXT_NODE
      [] which = "COMMENT_NODE" -> COMMENT_NODE
      [] which = "ELEMENT_NODE" -> ELEMENT_NODE

\* node.nodeType === DominoAdapter.defaultDoc.<which>: the left operand is read
\* first (a TypeError on a null node), then the constant off the static
\* defaultDoc (a TypeError while the static is still undefined).
CompareNodeType(node, which) ==
    IF node = 0 THEN Thrown("TypeError: Cannot read property 'nodeType' of null", <<>>)
    ELSE IF defaultDoc = 0
         THEN Thrown("TypeError: Cannot read property of undefined: ", <<which>>)
         ELSE Bool(heap[node].nodeType = NodeConstant(defaultDoc, which))

IsTextNodeResult(node) == CompareNodeType(node, "TEXT_NODE")
IsCommentNodeResult(node) == CompareNodeType(node, "COMMENT_NODE")
IsElementNodeResult(node) ==
    IF node # 0 THEN CompareNodeType(node, "ELEMENT_NODE") ELSE Bool(FALSE)

Query(op, a, ret) ==
    /\ last' = Call(op, a, 0, <<>>, Undefined, Undefined, ret)
    /\ UNCHANGED <<defaultDoc, currentAdapter, globalDocument, heap, lastShadow, lastHref>>

IsTextNode(node) == Query("isTextNode", node, IsTextNodeResult(node))
IsCommentNode(node) == Query("isCommentNode", node, IsCommentNodeResult(node))
IsElementNode(node) == Query("isElementNode", node, IsElementNodeResult(node))

(* ----------------------- capabilities not offered --------------------- *)

\* An error that does not say which method was called.
NotImplemented_anonymous(methodName) ==
    Thrown("This method is not implemented in DominoAdapter: ", <<>>)

\* _notImplemented(methodName), thrown by the caller.
NotImplemented(methodName) ==
    Thrown("This method is not implemented in DominoAdapter: ", <<methodName>>)

Unsupported(op, a, name, value) ==
    /\ last' = Call(op, a, 0, name, value, Undefined, NotImplemented(op))
    /\ UNCHANGED <<defaultDoc, currentAdapter, globalDocument, heap, lastShadow, lastHref>>

GetHistory == Unsupported("getHistory", 0, <<>>, Undefined)
GetLocation == Unsupported("getLocation", 0, <<>>, Undefined)
GetDistributedNodes(el) == Unsupported("getDistributedNodes", el, <<>>, Undefined)
GetCookie(name) == Unsupported("getCookie", 0, name, Undefined)
SetCookie(name, value) == Unsupported("setCookie", 0, name, value)

(* --------------------------- shadow roots ----------------------------- *)

\* A fragment that is not linked back to its host.
ShadowFragment_noParent(el, doc) == NewObject("fragment", DOCUMENT_FRAGMENT_NODE, doc, 0)

\* doc.createDocumentFragment() with el.shadowRoot.parent = el
ShadowFragment(el, doc) ==
    [NewObject("fragment", DOCUMENT_FRAGMENT_NODE, doc, 0) EXCEPT !.parent = el]

\* createShadowRoot(el, doc = document).  docArg 0: the argument is left out and the
\* default is the global `document`, a ReferenceError when the host declares none.
CreateShadowRoot(el, docArg) ==
    LET doc == IF docArg = 0 THEN globalDocument ELSE docArg
        new == Len(heap) + 1
    IN  /\ IsNode(el)
        /\ docArg = 0 \/ (docArg \in Objects /\ heap[docArg].kind = "document")
        /\ IF doc = 0
           THEN /\ last' = Call("createShadowRoot", el, docArg, <<>>, Undefined, Undefined,
                                Thrown("ReferenceError: document is not defined", <<>>))
                /\ UNCHANGED <<heap, lastShadow>>
           ELSE /\ new <= MaxObj
                /\ heap' = Append([heap EXCEPT ![el].shadowRoot = new], ShadowFragment(el, doc))
                /\ lastShadow' = [lastShadow EXCEPT ![el] = new]
                /\ last' = Call("createShadowRoot", el, docArg, <<>>, Undefined, Undefined,
                                Ref(new))
        /\ UNCHANGED <<defaultDoc, currentAdapter, globalDocument, lastHref>>

GetShadowRootResult(el) == Ref(heap[el].shadowRoot)
HasShadowRootResult(node) == Bool(heap[node].shadowRoot # 0)

GetShadowRoot(el) == IsNode(el) /\ Query("getShadowRoot", el, GetShadowRootResult(el))
HasShadowRoot(node) == IsNode(node) /\ Query("hasShadowRoot", node, HasShadowRootResult(node))

\* A walk that looks at nodeB and its parent only.
ContainsWalk_noLoop(nodeA, inner) ==
    inner # 0 /\ (inner = nodeA \/ (heap[inner].parent # 0 /\ heap[inner].parent = nodeA))

\* The loop of contains(nodeA, nodeB), from `inner` on.
RECURSIVE ContainsWalk(_, _)
ContainsWalk(nodeA, inner) ==
    IF inner = 0 THEN FALSE
    ELSE IF inner = nodeA THEN TRUE
         ELSE ContainsWalk(nodeA, heap[inner].parent)

ContainsResult(nodeA, nodeB) == Bool(ContainsWalk(nodeA, nodeB))

Contains(nodeA, nodeB) ==
    /\ nodeA \in 0..Len(heap) /\ nodeB \in 0..Len(heap)
    /\ last' = Call("contains", nodeA, nodeB, <<>>, Undefined, Undefined,
                    ContainsResult(nodeA, nodeB))
    /\ UNCHANGED <<defaultDoc, currentAdapter, globalDocument, heap, lastShadow, lastHref>>

(* ---------------------- properties and attributes --------------------- *)

\* getAttribute(el, 'href') of the base adapter: element.getAttribute.
GetAttributeResult(el, name) == IF name = "href" THEN heap[el].href ELSE heap[el].style

GetAttribute(el) ==
    /\ IsElement(el)
    /\ last' = Call("getAttribute", el, 0, <<"href">>, Undefined, Undefined,
                    GetAttributeResult(el, "href"))
    /\ UNCHANGED <<defaultDoc, currentAdapter, globalDocument, heap, lastShadow, lastHref>>

\* setAttribute(el, 'href', value) of the base adapter: element.setAttribute.
SetAttribute(el, value) ==
    /\ IsElement(el)
    /\ heap' = [heap EXCEPT ![el].href = value]
    /\ lastHref' = [lastHref EXCEPT ![el] = value]
    /\ last' = Call("setAttribute", el, 0, <<"href">>, value, Undefined, Undefined)
    /\ UNCHANGED <<defaultDoc, currentAdapter, globalDocument, lastShadow>>

\* A getProperty without the href and innerText branches.
GetPropertyResult_direct(el, name) == heap[el].props[name]

\* getProperty(el, name)
GetPropertyResult(el, name) ==
    IF name = "href" THEN GetAttributeResult(el, "href")
    ELSE IF name = "innerText" THEN heap[el].textContent
         ELSE heap[el].props[name]

GetProperty(el, name) ==
    /\ IsElement(el)
    /\ last' = Call("getProperty", el, 0, <<name>>, Undefined, Undefined,
                    GetPropertyResult(el, name))
    /\ UNCHANGED <<defaultDoc, currentAdapter, globalDocument, heap, lastShadow, lastHref>>

\* The element after setProperty(el, name, value): the mirrored write, then
\* (<any>el)[name] = value.
PropertyWrite(obj, name, value) ==
    LET mirrored == IF name = "href" THEN [obj EXCEPT !.href = value]
                    ELSE IF name = "innerText" THEN [obj EXCEPT !.textContent = value]
                         ELSE obj
    IN  [mirrored EXCEPT !.props[name] = value]

SetProperty(el, name, value) ==
    /\ IsElement(el)
    /\ heap' = [heap EXCEPT ![el] = PropertyWrite(heap[el], name, value)]
    /\ lastHref' = IF name = "href" THEN [lastHref EXCEPT ![el] = value] ELSE lastHref
    /\ last' = Call("setProperty", el, 0, <<name>>, value, Undefined, Undefined)
    /\ UNCHANGED <<defaultDoc, currentAdapter, globalDocument, lastShadow>>

(* ------------------------------ events -------------------------------- *)

\* el.ownerDocument || el
OwningDocument(el) == IF heap[el].ownerDocument # 0 THEN heap[el].ownerDocument ELSE el

\* A dispatch that forgets the window.
DispatchesToWindow_never(win) == FALSE

\* if (win)
DispatchesToWindow(win) == win # 0

\* target.dispatchEvent(evt) of the engine, when it does not throw: the listeners
\* of the target observe the event once.
Deliver(h, target) == [h EXCEPT ![target].received = @ + 1]

\* dispatchEvent(el, evt).  The engine may refuse a dispatch (an event that is
\* being dispatched or was never initialised): elThrows and winThrows are that
\* choice for the two dispatches.
DispatchEvent(el, elThrows, winThrows) ==
    LET win == heap[OwningDocument(el)].defaultView
    IN  /\ IsNode(el)
        /\ heap[el].received < MaxRecv
        /\ win # 0 => heap[win].received < MaxRecv
        /\ IF elThrows
           THEN /\ heap' = heap
                /\ last' = Call("dispatchEvent", el, win, <<>>, Undefined, Undefined,
                                Thrown("InvalidStateError", <<"el">>))
           ELSE IF DispatchesToWindow(win)
                THEN IF winThrows
                     THEN /\ heap' = Deliver(heap, el)
                          /\ last' = Call("dispatchEvent", el, win, <<>>, Undefined, Undefined,
                                          Thrown("InvalidStateError", <<"win">>))
                     ELSE /\ heap' = Deliver(Deliver(heap, el), win)
                          /\ last' = Call("dispatchEvent", el, win, <<>>, Undefined, Undefined,
                                          Undefined)
                ELSE /\ heap' = Deliver(heap, el)
                     /\ last' = Call("dispatchEvent", el, win, <<>>, Undefined, Undefined,
                                     Undefined)
        /\ UNCHANGED <<defaultDoc, currentAdapter, globalDocument, lastShadow, lastHref>>

(* --------------------------- specifications --------------------------- *)

HrefValues == {Str(<<"/", "x">>), Str(<<"y">>)}
CookieNames == {<<"a">>, <<"b">>}

\* The process from its start: documents are parsed and created, adapters
\* installed, nodes classified, shadow roots and href attributes set.
Init ==
    /\ defaultDoc = 0
    /\ currentAdapter = 0
    /\ globalDocument = 0
    /\ heap = <<>>
    /\ lastShadow = [i \in 1..MaxObj + 1 |-> 0]
    /\ lastHref = [i \in 1..MaxObj + 1 |-> Null]
    /\ last = NoCall

Next ==
    \/ MakeCurrent
    \/ \E html \in Pages : ParseDocument(html)
    \/ CreateHtmlDocument
    \/ GetDefaultDocument
    \/ \E node \in 0..Len(heap) : (node = 0 \/ IsNode(node)) /\ IsTextNode(node)
    \/ \E node \in 0..Len(heap) : (node = 0 \/ IsNode(node)) /\ IsCommentNode(node)
    \/ \E node \in 0..Len(heap) : (node = 0 \/ IsNode(node)) /\ IsElementNode(node)
    \/ GetHistory
    \/ GetLocation
    \/ \E el \in Objects : GetDistributedNodes(el)
    \/ \E name \in CookieNames : GetCookie(name)
    \/ \E name \in CookieNames, value \in CookieNames : SetCookie(name, Str(value))
    \/ \E el \in Objects, doc \in Objects : IsElement(el) /\ CreateShadowRoot(el, doc)
    \/ \E el \in Objects : SetAttribute(el, Str(<<"y">>))

Spec == Init /\ [][Next]_vars

\* Shadow roots and containment on a parsed page.
TreeNext ==
    \/ \E el \in Objects, docArg \in 0..Len(heap) : CreateShadowRoot(el, docArg)
    \/ \E el \in Objects : GetShadowRoot(el)
    \/ \E node \in Objects : HasShadowRoot(node)
    \/ \E nodeA \in 0..Len(heap), nodeB \in 0..Len(heap) : Contains(nodeA, nodeB)

SpecTree == (\E global \in {0, 2} : PageInit("<html>text</html>", Null, global))
            /\ [][TreeNext]_vars

\* Properties and the href attribute of the element of a parsed page.
PropValues == HrefValues \cup {Str(<<>>)}

PropNext ==
    \E el \in Objects :
        \/ \E value \in HrefValues : SetAttribute(el, value)
        \/ GetAttribute(el)
        \/ \E name \in PropNames, value \in PropValues : SetProperty(el, name, value)
        \/ \E name \in PropNames : GetProperty(el, name)

SpecProp == PageInit("<html></html>", Null, 0) /\ [][PropNext]_vars

\* Event dispatch on the nodes of a parsed page and on the default document.
EventNext ==
    \/ \E el \in Objects, elThrows \in BOOLEAN, winThrows \in BOOLEAN :
           DispatchEvent(el, elThrows, winThrows)
    \/ GetDefaultDocument

SpecEvent == PageInit("<html>text</html>", Null, 0) /\ [][EventNext]_vars

(* ------------------------ lifecycle properties ------------------------ *)

\* C4: the first getDefaultDocument() creates the default document, every call
\* returns the memoized one, and no step replaces or clears it once set.
C4_DefaultDocWriteOnce ==
    /\ [](last.op = "getDefaultDocument" =>
            /\ defaultDoc # 0 /\ last.ret = Ref(defaultDoc)
            /\ heap[defaultDoc].kind = "document")
    /\ [][/\ defaultDoc # 0 => defaultDoc' = defaultDoc
          /\ defaultDoc' # defaultDoc =>
                 /\ last'.op = "getDefaultDocument"
                 /\ defaultDoc' = Len(heap) + 1]_vars

\* The memoized document is returned after another adapter was installed and
\* other documents were parsed.
C4_Witness ==
    /\ last.op = "getDefaultDocument" /\ last.ret = Ref(defaultDoc)
    /\ currentAdapter = MaxAdapters /\ defaultDoc < Len(heap)
    /\ \E d \in Objects : d > defaultDoc /\ heap[d].kind = "document"

ClassifyOps == {"isTextNode", "isCommentNode", "isElementNode"}

\* C5: in every reachable state, isTextNode, isCommentNode and isElementNode on a
\* present node return the boolean of the nodeType comparison without failing,
\* and isElementNode on an absent node returns false.
C5_ClassifyNeverFails ==
    last.op \in ClassifyOps =>
        /\ last.a # 0 =>
               last.ret = Bool(heap[last.a].nodeType =
                                 CASE last.op = "isTextNode" -> TEXT_NODE
                                   [] last.op = "isCommentNode" -> COMMENT_NODE
                                   [] OTHER -> ELEMENT_NODE)
        /\ (last.a = 0 /\ last.op = "isElementNode") => last.ret = Bool(FALSE)

UnsupportedOps == {"getHistory", "getLocation", "getDistributedNodes", "getCookie", "setCookie"}

\* C8: getHistory, getLocation, getDistributedNodes, getCookie and setCookie
\* always throw an error naming the method and change nothing.
C8_UnsupportedAlwaysThrow ==
    [][last'.op \in UnsupportedOps =>
          /\ last'.ret.t = "error"
          /\ last'.ret.m = "This method is not implemented in DominoAdapter: "
          /\ last'.ret.s = <<last'.op>>
          /\ UNCHANGED <<defaultDoc, currentAdapter, globalDocument, heap, lastShadow,
                         lastHref>>]_vars

\* setCookie has thrown in a state with a default document, a shadow root and an
\* href attribute in place.
C8_Witness ==
    /\ last.op = "setCookie" /\ last.ret.t = "error" /\ last.ret.s = <<"setCookie">>
    /\ defaultDoc # 0
    /\ \E el \in Objects : heap[el].shadowRoot # 0 /\ heap[el].href # Null

(* -------------------------- tree properties --------------------------- *)

\* The objects reached from S by following parent links, S included.
RECURSIVE ParentClosure(_)
ParentClosure(S) ==
    LET T == S \cup ({heap[i].parent : i \in S} \ {0})
    IN  IF T = S THEN S ELSE ParentClosure(T)

\* The ancestors of b: reached by one or more parent links.
Ancestors(b) == IF b = 0 THEN {} ELSE ParentClosure({heap[b].parent} \ {0})

\* C6 as stated: contains(a, b) is true exactly when a is an ancestor of b (one
\* or more parent links), so contains(a, a) is false.
C6_ContainsIffAncestor ==
    last.op = "contains" => last.ret = Bool(last.a \in Ancestors(last.b))

\* C6 amended: the parent links form a forest, and contains(a, b) is true
\* exactly when a is b itself or an ancestor of b (zero or more parent links
\* from a present b); contains(a, a) is true for a present a.
C6_ContainsIffSelfOrAncestor ==
    /\ \A i \in Objects : i \notin Ancestors(i)
    /\ \A a \in 0..Len(heap), b \in 0..Len(heap) :
           ContainsResult(a, b) = Bool(b # 0 /\ (a = b \/ a \in Ancestors(b)))
    /\ last.op = "contains" =>
           last.ret = Bool(last.b # 0 /\ (last.a = last.b \/ last.a \in Ancestors(last.b)))

\* contains found an ancestor two or more links up.
C6_Witness ==
    /\ last.op = "contains" /\ last.ret = Bool(TRUE)
    /\ last.a # last.b /\ heap[last.b].parent # last.a

\* C7: every object's shadowRoot is the fragment its latest completed
\* createShadowRoot returned (none before the first), hasShadowRoot tells whether
\* there was one, the fragment's parent is its host, the host contains it, and
\* createShadowRoot returns what it attached.
C7_ShadowRootIsLatest ==
    /\ \A el \in Objects :
           /\ IsNode(el) => /\ GetShadowRootResult(el) = Ref(lastShadow[el])
                            /\ HasShadowRootResult(el) = Bool(lastShadow[el] # 0)
           /\ heap[el].shadowRoot # 0 =>
                  /\ heap[heap[el].shadowRoot].kind = "fragment"
                  /\ heap[heap[el].shadowRoot].parent = el
                  /\ ContainsResult(el, heap[el].shadowRoot) = Bool(TRUE)
    /\ (last.op = "createShadowRoot" /\ last.ret.t # "error") =>
           last.ret = Ref(heap[last.a].shadowRoot)

\* A second createShadowRoot replaced the first fragment of a host while another
\* host kept its own.
C7_Witness ==
    /\ last.op = "createShadowRoot" /\ last.ret.t = "object"
    /\ \E f \in Objects : /\ f # heap[last.a].shadowRoot
                          /\ heap[f].kind = "fragment" /\ heap[f].parent = last.a
    /\ \E other \in Objects : other # last.a /\ heap[other].shadowRoot # 0

(* ------------------------ property properties ------------------------- *)

\* C9: getProperty(el, "href") is the raw href attribute, equal to
\* getAttribute(el, "href") and to the value last written by setAttribute or
\* setProperty; setProperty(el, "innerText", v) reads back as v; and setProperty
\* always performs the direct write el[name] = value.
C9_HrefConsistent ==
    /\ \A el \in Objects : IsElement(el) =>
           /\ GetPropertyResult(el, "href") = GetAttributeResult(el, "href")
           /\ GetPropertyResult(el, "href") = lastHref[el]
    /\ last.op = "setProperty" =>
           /\ heap[last.a].props[last.name[1]] = last.value
           /\ last.name = <<"innerText">> =>
                  GetPropertyResult(last.a, "innerText") = last.value
    /\ (last.op = "getProperty" /\ last.name = <<"href">>) => last.ret = lastHref[last.a]

\* getProperty("href") returned the value of a setAttribute that came after a
\* setProperty("href") of another value.
C9_Witness ==
    /\ last.op = "getProperty" /\ last.name = <<"href">>
    /\ last.ret = Str(<<"/", "x">>)
    /\ heap[last.a].props["href"] = Str(<<"y">>)

(* -------------------------- event properties -------------------------- *)

Received(h, i) == h[i].received

\* C10: a dispatchEvent call delivers the event once to el and then, when the
\* owning document of el (el itself for a document) has a default view, once to
\* that view; without a default view only el receives it; when the dispatch on
\* el fails nothing is delivered.  No other target receives anything.
C10_DispatchFanOut ==
    [][last'.op = "dispatchEvent" =>
          LET el == last'.a
              doc == IF heap[el].ownerDocument # 0 THEN heap[el].ownerDocument ELSE el
              win == heap[doc].defaultView
              elFailed == last'.ret.t = "error" /\ last'.ret.s = <<"el">>
              winFailed == last'.ret.t = "error" /\ last'.ret.s = <<"win">>
          IN  /\ \A i \in Objects : i \notin {el, win} => Received(heap', i) = Received(heap, i)
              /\ elFailed => heap' = heap
              /\ ~elFailed => Received(heap', el) = Received(heap, el) + 1
              /\ (win # 0 /\ ~elFailed /\ ~winFailed) =>
                     Received(heap', win) = Received(heap, win) + 1
              /\ win = 0 => ~winFailed]_vars

\* A document with a default view was the target: it and its window have each
\* received the event once, and a node of a window-less document has received one.
C10_Witness ==
    /\ last.op = "dispatchEvent" /\ last.ret.t # "error"
    /\ heap[last.a].kind = "document" /\ last.b # 0
    /\ heap[last.a].received = 1 /\ heap[last.b].received = 1
    /\ defaultDoc # 0 /\ heap[defaultDoc].received = 1

(* ------------------------- style properties --------------------------- *)

StyleOps == {"setStyle", "removeStyle", "getStyle", "hasStyle"}

\* The style attribute of the element of the last call, as it is now.
StyleNow == heap[last.a].style

\* s[i..j] is a segment of s: a maximal stretch without a semicolon.
IsSegment(s, i, j) ==
    /\ i <= j
    /\ \A x \in i..j : s[x] # ";"
    /\ i = 1 \/ s[i - 1] = ";"
    /\ j = Len(s) \/ s[j + 1] = ";"

\* The non-empty segments of a style attribute that hold no colon.
BadSegments(attr) ==
    IF attr.t # "string" THEN {}
    ELSE {SubSeq(attr.s, p[1], p[2]) :
            p \in {q \in (1..Len(attr.s)) \X (1..Len(attr.s)) :
                     /\ IsSegment(attr.s, q[1], q[2])
                     /\ \A x \in q[1]..q[2] : attr.s[x] # ":"}}

Malformed(attr) == BadSegments(attr) # {}

HasToken(s, c) == \E i \in 1..Len(s) : s[i] = c
Trimmed(s) == s = <<>> \/ (s[1] # " " /\ s[Len(s)] # " ")

\* A non-empty string value without leading or trailing whitespace.
CleanValue(v) == v.t = "string" /\ v.s # <<>> /\ Trimmed(v.s)

\* A style name that survives the codec as a key of its own.
PlainName(s) ==
    /\ ~HasToken(s, ":") /\ ~HasToken(s, ";") /\ Trimmed(s)
    /\ s # <<"hasOwnProperty">> /\ s # <<"__proto__">>

\* No key of the attribute shadows a member of Object.prototype.
NoShadowingKey(attr) == attr.t = "string" => ~HasToken(attr.s, "hasOwnProperty")

\* C1 as stated: on an element whose style attribute was absent or well-formed,
\* right after setStyle(el, name, v) with any name and any non-empty v without
\* surrounding whitespace getStyle(el, name) returns v, and right after
\* setStyle(el, name, null) it returns "".
C1_RoundTripAnyNameAnyValue ==
    (last.op = "setStyle" /\ ~Malformed(last.pre)) =>
        /\ CleanValue(last.value) => GetStyleResult(StyleNow, last.name) = last.value
        /\ last.value = Null => GetStyleResult(StyleNow, last.name) = Str(<<>>)

\* C1 amended: the round trip of a value holds when the name is a plain key (no
\* colon, no semicolon, no surrounding whitespace, not hasOwnProperty or
\* __proto__), the value holds no semicolon, and no key of the attribute is
\* hasOwnProperty; the round trip of null holds for every name when no key of
\* the attribute is hasOwnProperty.
C1_RoundTrip ==
    (last.op = "setStyle" /\ ~Malformed(last.pre) /\ NoShadowingKey(last.pre)) =>
        /\ (CleanValue(last.value) /\ ~HasToken(last.value.s, ";") /\ PlainName(last.name))
               => GetStyleResult(StyleNow, last.name) = last.value
        /\ last.value = Null => GetStyleResult(StyleNow, last.name) = Str(<<>>)

\* A value was written beside an entry already in the attribute and reads back.
C1_Witness ==
    /\ last.op = "setStyle" /\ Truthy(last.pre) /\ ~Malformed(last.pre)
    /\ CleanValue(last.value) /\ PlainName(last.name)
    /\ Len(StyleNow.s) > Len(last.name) + Len(last.value.s) + 2
    /\ GetStyleResult(StyleNow, last.name) = last.value

\* s is a concatenation of key:value; segments with every value non-empty.
RECURSIVE Decomposable(_)
Decomposable(s) ==
    \/ s = <<>>
    \/ \E c \in 1..Len(s), e \in 1..Len(s) :
           /\ e >= c + 2 /\ s[c] = ":" /\ s[e] = ";"
           /\ Decomposable(SubSeq(s, e + 1, Len(s)))

\* C2: on an element that starts without a style attribute, the attribute is
\* always absent or a concatenation of key:value; segments with non-empty
\* values, and a write of null, undefined or "" leaves no entry under that name.
C2_NoEmptyValueWritten ==
    \A el \in Objects :
        /\ heap[el].style.t = "string" => Decomposable(heap[el].style.s)
        /\ (last.op \in {"setStyle", "removeStyle"} /\ last.a = el
              /\ last.ret.t # "error" /\ ~Truthy(last.value))
             => LET r == ReadStyleAttribute(heap[el].style)
                IN  r.ok => ~HasOwn(r.map, last.name)

\* An empty value was written for a new name and only the earlier entry is left.
C2_Witness ==
    /\ last.op = "setStyle" /\ last.value = Str(<<>>) /\ last.ret.t # "error"
    /\ Truthy(last.pre) /\ StyleNow = last.pre
    /\ ~HasOwn(ReadStyleAttribute(last.pre).map, last.name)

\* C3: a style operation on an element whose style attribute has a non-empty
\* segment without a colon throws "Invalid CSS style: <that segment>" and leaves
\* the attribute as it was; without such a segment no such error is thrown.
C3_MalformedThrows ==
    last.op \in StyleOps =>
        /\ Malformed(last.pre) =>
               /\ last.ret.t = "error" /\ last.ret.m = "Invalid CSS style: "
               /\ last.ret.s \in BadSegments(last.pre)
               /\ StyleNow = last.pre
        /\ ~Malformed(last.pre) => last.ret.m # "Invalid CSS style: "

\* A write was refused on an attribute whose first segment is fine and whose
\* second one holds no colon.
C3_Witness ==
    /\ last.op = "removeStyle" /\ Malformed(last.pre) /\ HasToken(last.pre.s, ":")
    /\ last.ret.t = "error" /\ last.ret.s \in BadSegments(last.pre)
    /\ last.ret.s # SplitSemicolons(last.pre.s)[1]

====
